---- MODULE Spec2Model ----
(***************************************************************************)
(* Model of autoPyTorch's CosineAnnealingWarmRestarts pipeline component   *)
(* (pipeline/components/setup/lr_scheduler/CosineAnnealingWarmRestarts.py).*)
(*                                                                         *)
(* One component instance is observed.  Its fields are the variables T_0,  *)
(* T_mult, random_state and scheduler; X is the caller's fit dictionary.   *)
(* Python values are records: an int n is [kind "int", num n, den 1], a    *)
(* float num/den is [kind "float", num, den], a non-numeric string and     *)
(* None have their own kinds.  The two external libraries (torch's         *)
(* schedule constructor, ConfigSpace's hyperparameter constructors) are    *)
(* called with the arguments the source passes; whether such a call        *)
(* returns or raises is not decided by this repository and is an input of  *)
(* the action that makes the call.                                         *)
(***************************************************************************)
EXTENDS Integers, Sequences, FiniteSets, TLC

VARIABLES
    T_0, T_mult, random_state, scheduler,  \* the instance's fields
    X,          \* the caller's fit dictionary
    call,       \* the operation that ran last
    ret,        \* what it returned ("none": it raised, or nothing ran)
    raised,     \* the exception it raised ("none": it returned)
    ret_props,  \* the mapping get_properties returned
    cs,         \* the hyperparameters of the returned ConfigurationSpace
    hp_args,    \* the (T_0, T_mult) arguments of that search-space call
    built       \* history: the schedules the constructor returned, in order

vars == <<T_0, T_mult, random_state, scheduler,
          X, call, ret, raised, ret_props, cs, hp_args, built>>

\* ---------------------------------------------------------------- bounds

\* Successful schedule constructions followed on one instance.
MaxFits == 3
\* Real-valued T_mult is sampled on a grid of Resolution steps over [1.0, 2.0].
Resolution == 4

\* ---------------------------------------------------------- Python values

PyInteger(n) == [kind |-> "int", num |-> n, den |-> 1]
PyFloat(n, d) == [kind |-> "float", num |-> n, den |-> d]
PyStr == [kind |-> "str", num |-> 0, den |-> 1]
PyNone == [kind |-> "none", num |-> 0, den |-> 1]

\* Default arguments of get_hyperparameter_search_space: ((low, high), default).
DefaultT_0 == <<<<PyInteger(1), PyInteger(20)>>, PyInteger(1)>>
DefaultT_mult == <<<<PyFloat(1, 1), PyFloat(2, 1)>>, PyFloat(1, 1)>>

\* Values __init__ may be given for T_0: it stores anything.
T0Values ==
    {PyInteger(n) : n \in 0..(DefaultT_0[1][2].num + 1)}
        \cup {PyFloat(25, 10), PyStr, PyNone}

\* Values __init__ may be given for T_mult.
TmultValues ==
    {PyInteger(n) : n \in 0..3}
        \cup {PyFloat(n, Resolution) : n \in Resolution..(2 * Resolution)}
        \cup {PyFloat(17, 10), PyFloat(5, 10), PyFloat(-17, 10), PyFloat(25, 10), PyStr}

RandomStates == {"None", "RandomState"}

Optimizers == {"optA", "optB"}

\* The fit dictionaries a caller may hold: "optimizer" absent, a valid
\* optimizer or something that is no optimizer; one unrelated entry.
DictKeys == {"optimizer", "X_train"}
DictValues(k) == IF k = "optimizer" THEN Optimizers \cup {"not_an_optimizer"} ELSE {"data"}
FitDicts ==
    UNION {{d \in [K -> Optimizers \cup {"not_an_optimizer", "data"}] :
                \A k \in K : d[k] \in DictValues(k)} : K \in SUBSET DictKeys}

\* scheduler = None
NoScheduler == [optimizer |-> "None", T_0 |-> 0, T_mult |-> 0, id |-> 0]

NoProperties == [shortname |-> "", name |-> "", cyclic |-> FALSE]

\* ------------------------------------------------------------- operations

\* Mutant of PyInt: rounds a float to the nearest integer.
PyInt_rounds(v) ==
    CASE v.kind = "int" -> [exc |-> "none", val |-> v.num]
      [] v.kind = "float" ->
            [exc |-> "none",
             val |-> IF v.num >= 0
                     THEN (2 * v.num + v.den) \div (2 * v.den)
                     ELSE -((2 * (-v.num) + v.den) \div (2 * v.den))]
      [] v.kind = "str" -> [exc |-> "ValueError", val |-> 0]
      [] OTHER -> [exc |-> "TypeError", val |-> 0]

\* Python's int(): identity on int, truncation toward zero on float,
\* ValueError on a non-numeric string, TypeError on None.
PyInt(v) ==
    CASE v.kind = "int" -> [exc |-> "none", val |-> v.num]
      [] v.kind = "float" ->
            [exc |-> "none",
             val |-> IF v.num >= 0 THEN v.num \div v.den ELSE -((-v.num) \div v.den)]
      [] v.kind = "str" -> [exc |-> "ValueError", val |-> 0]
      [] OTHER -> [exc |-> "TypeError", val |-> 0]

\* BaseLRComponent.check_requirements: the fit dictionary must hold a usable
\* "optimizer".
check_requirements(x) ==
    IF "optimizer" \in DOMAIN x /\ x["optimizer"] \in Optimizers
    THEN "none"
    ELSE "MissingDependencyError"

\* Mutant of NewScheduler: T_mult is passed without the int() coercion having
\* taken the fractional part off, i.e. the next integer up is used.
NewScheduler_ceil(x, t_0, t_mult, id) ==
    [optimizer |-> x["optimizer"],
     T_0 |-> PyInt(t_0).val,
     T_mult |-> IF t_mult.kind = "float" /\ PyInt(t_mult).val * t_mult.den # t_mult.num
                THEN PyInt(t_mult).val + 1
                ELSE PyInt(t_mult).val,
     id |-> id]

\* The schedule object torch's constructor returns for the keyword arguments
\* of fit; id is the identity of the new object.
NewScheduler(x, t_0, t_mult, id) ==
    [optimizer |-> x["optimizer"],
     T_0 |-> PyInt(t_0).val,
     T_mult |-> PyInt(t_mult).val,
     id |-> id]

\* Mutant of fit_raises: the constructor's arguments are coerced before the
\* requirements are checked.
fit_raises_coerce_first(x, t_0, t_mult, lib) ==
    IF PyInt(t_0).exc # "none" THEN PyInt(t_0).exc
    ELSE IF PyInt(t_mult).exc # "none" THEN PyInt(t_mult).exc
    ELSE IF check_requirements(x) # "none" THEN check_requirements(x)
    ELSE IF lib = "raises" THEN "SchedulerError"
    ELSE "none"

\* The exception fit ends with ("none": it returns), in evaluation order:
\* check_requirements, int(self.T_0), int(self.T_mult), the constructor.
fit_raises(x, t_0, t_mult, lib) ==
    IF check_requirements(x) # "none" THEN check_requirements(x)
    ELSE IF PyInt(t_0).exc # "none" THEN PyInt(t_0).exc
    ELSE IF PyInt(t_mult).exc # "none" THEN PyInt(t_mult).exc
    ELSE IF lib = "raises" THEN "SchedulerError"
    ELSE "none"

\* Mutant of fit_scheduler: fit clears self.scheduler before it starts.
fit_scheduler_clears(old, x, t_0, t_mult, lib, id) ==
    IF fit_raises(x, t_0, t_mult, lib) = "none"
    THEN NewScheduler(x, t_0, t_mult, id)
    ELSE NoScheduler

\* Mutant of fit_scheduler: a schedule is stored although the constructor raised.
fit_scheduler_partial(old, x, t_0, t_mult, lib, id) ==
    IF fit_raises(x, t_0, t_mult, lib) \in {"none", "SchedulerError"}
    THEN NewScheduler(x, t_0, t_mult, id)
    ELSE old

\* Mutant of fit_scheduler: an existing schedule is kept (fit only once).
fit_scheduler_keeps_first(old, x, t_0, t_mult, lib, id) ==
    IF fit_raises(x, t_0, t_mult, lib) = "none" /\ old = NoScheduler
    THEN NewScheduler(x, t_0, t_mult, id)
    ELSE old

\* self.scheduler after fit: assigned only once the constructor has returned.
fit_scheduler(old, x, t_0, t_mult, lib, id) ==
    IF fit_raises(x, t_0, t_mult, lib) = "none"
    THEN NewScheduler(x, t_0, t_mult, id)
    ELSE old

\* Mutant of fit: the coerced T_mult is written back to the field.
fit_writes_back(self, x, y, lib, id) ==
    IF fit_raises(x, self.T_0, self.T_mult, lib) = "none"
    THEN [self EXCEPT
            !.scheduler = NewScheduler(x, self.T_0, self.T_mult, id),
            !.T_mult = PyInteger(PyInt(self.T_mult).val)]
    ELSE self

\* fit(self, X, y): the instance after the call.
fit(self, x, y, lib, id) ==
    [self EXCEPT !.scheduler = fit_scheduler(self.scheduler, x, self.T_0, self.T_mult, lib, id)]

\* fit's return value.
fit_returns(x, t_0, t_mult, lib) ==
    IF fit_raises(x, t_0, t_mult, lib) = "none" THEN "self" ELSE "none"

\* Mutant of get_properties: the result depends on the argument.
get_properties_by_dataset(dataset_properties) ==
    [shortname |-> "CosineAnnealingWarmRestarts",
     name |-> "Cosine Annealing WarmRestarts",
     cyclic |-> dataset_properties = "None"]

\* get_properties(dataset_properties)
get_properties(dataset_properties) ==
    [shortname |-> "CosineAnnealingWarmRestarts",
     name |-> "Cosine Annealing WarmRestarts",
     cyclic |-> TRUE]

\* The hyperparameter objects ConfigSpace's constructors are asked for.
UniformIntegerHyperparameter(name, lower, upper, default_value) ==
    [name |-> name, type |-> "UniformInteger",
     lower |-> lower, upper |-> upper, default_value |-> default_value]

UniformFloatHyperparameter(name, lower, upper, default_value) ==
    [name |-> name, type |-> "UniformFloat",
     lower |-> lower, upper |-> upper, default_value |-> default_value]

\* Mutant of get_hyperparameter_search_space: T_mult's bounds are swapped.
get_hyperparameter_search_space_swapped(dataset_properties, t_0, t_mult) ==
    {UniformIntegerHyperparameter("T_0", t_0[1][1], t_0[1][2], t_0[2]),
     UniformFloatHyperparameter("T_mult", t_mult[1][2], t_mult[1][1], t_mult[2])}

\* get_hyperparameter_search_space(dataset_properties, T_0, T_mult): the
\* hyperparameters added to the returned ConfigurationSpace.
get_hyperparameter_search_space(dataset_properties, t_0, t_mult) ==
    {UniformIntegerHyperparameter("T_0", t_0[1][1], t_0[1][2], t_0[2]),
     UniformFloatHyperparameter("T_mult", t_mult[1][1], t_mult[1][2], t_mult[2])}

\* Arguments of the form ((low, high), default) over a set of values.
RangeArgs(S) == {<<<<lo, hi>>, d>> : lo \in S, hi \in S, d \in S}

T0Args == RangeArgs({DefaultT_0[1][1], DefaultT_0[1][2], PyInteger(5)})

TmultArgs == RangeArgs({DefaultT_mult[1][1], DefaultT_mult[1][2], PyFloat(3, 2)})

\* ---------------------------------------------------------------- actions

Instance == [T_0 |-> T_0, T_mult |-> T_mult, random_state |-> random_state,
             scheduler |-> scheduler]

\* __init__(T_0, T_mult, random_state): the instance right after construction,
\* for every argument triple; the arguments are stored as given.
Init ==
    /\ T_0 \in T0Values
    /\ T_mult \in TmultValues
    /\ random_state \in RandomStates
    /\ scheduler = NoScheduler
    /\ X \in FitDicts
    /\ call = "__init__"
    /\ ret = "self"
    /\ raised = "none"
    /\ ret_props = NoProperties
    /\ cs = {}
    /\ hp_args = <<>>
    /\ built = <<>>

\* The caller prepares another fit dictionary.
CallerSetsX(x) ==
    /\ X' = x
    /\ x # X
    /\ call' = "caller"
    /\ ret' = "none"
    /\ raised' = "none"
    /\ ret_props' = NoProperties
    /\ UNCHANGED <<T_0, T_mult, random_state, scheduler, cs, hp_args, built>>

\* fit(X, y); lib is what the external schedule constructor does if reached.
Fit(y, lib) ==
    /\ Len(built) < MaxFits
    /\ LET after == fit(Instance, X, y, lib, Len(built) + 1)
           exc == fit_raises(X, T_0, T_mult, lib)
       IN /\ T_0' = after.T_0
          /\ T_mult' = after.T_mult
          /\ random_state' = after.random_state
          /\ scheduler' = after.scheduler
          /\ raised' = exc
          /\ ret' = fit_returns(X, T_0, T_mult, lib)
          /\ built' = IF exc = "none"
                      THEN Append(built, NewScheduler(X, T_0, T_mult, Len(built) + 1))
                      ELSE built
    /\ call' = "fit"
    /\ ret_props' = NoProperties
    /\ UNCHANGED <<X, cs, hp_args>>

GetProperties(dataset_properties) ==
    /\ call' = "get_properties"
    /\ ret' = "properties"
    /\ raised' = "none"
    /\ ret_props' = get_properties(dataset_properties)
    /\ UNCHANGED <<T_0, T_mult, random_state, scheduler, X, cs, hp_args, built>>

\* get_hyperparameter_search_space(dataset_properties, T_0, T_mult); lib is
\* what ConfigSpace's constructors do with the arguments.
GetHyperparameterSearchSpace(dataset_properties, t_0, t_mult, lib) ==
    /\ call' = "get_hyperparameter_search_space"
    /\ hp_args' = <<t_0, t_mult>>
    /\ IF lib = "raises"
       THEN /\ raised' = "ConfigSpaceError"
            /\ ret' = "none"
            /\ cs' = {}
       ELSE /\ raised' = "none"
            /\ ret' = "space"
            /\ cs' = get_hyperparameter_search_space(dataset_properties, t_0, t_mult)
    /\ ret_props' = NoProperties
    /\ UNCHANGED <<T_0, T_mult, random_state, scheduler, X, built>>

Next ==
    \/ \E x \in FitDicts : CallerSetsX(x)
    \/ \E y \in {"None", "y"}, lib \in {"returns", "raises"} : Fit(y, lib)
    \/ \E dp \in {"None", "dataset_properties"} : GetProperties(dp)

Spec == Init /\ [][Next]_vars

\* The static search-space builder alone, beside an instance built from the
\* default configuration.
InitHP ==
    /\ T_0 = DefaultT_0[2]
    /\ T_mult = DefaultT_mult[2]
    /\ random_state = "None"
    /\ scheduler = NoScheduler
    /\ X \in {d \in FitDicts : DOMAIN d = {}}
    /\ call = "__init__"
    /\ ret = "self"
    /\ raised = "none"
    /\ ret_props = NoProperties
    /\ cs = {}
    /\ hp_args = <<>>
    /\ built = <<>>

NextHP ==
    \E dp \in {"None", "dataset_properties"}, t_0 \in T0Args \cup {DefaultT_0},
       t_mult \in TmultArgs \cup {DefaultT_mult}, lib \in {"returns", "raises"} :
        GetHyperparameterSearchSpace(dp, t_0, t_mult, lib)

SpecHP == InitHP /\ [][NextHP]_vars

\* ----------------------------------------------------------------- claims

Abs(n) == IF n >= 0 THEN n ELSE -n

\* The integer nearest to num/den among those no farther from zero.
TruncTowardZero(v) ==
    CHOOSE k \in (-Abs(v.num))..Abs(v.num) :
        /\ Abs(k) * v.den <= Abs(v.num)
        /\ Abs(v.num) < (Abs(k) + 1) * v.den
        /\ (k > 0 => v.num > 0)
        /\ (k < 0 => v.num < 0)

Numeric(v) == v.kind \in {"int", "float"}

PropertiesMapping ==
    [shortname |-> "CosineAnnealingWarmRestarts",
     name |-> "Cosine Annealing WarmRestarts",
     cyclic |-> TRUE]

\* C1: scheduler is non-null if and only if at least one fit call on the
\* instance has completed successfully; it is null right after construction
\* and after failing fit calls that no successful one preceded.
C1_SchedulerIffFitSucceeded ==
    /\ (scheduler # NoScheduler) <=> (Len(built) > 0)
    /\ (call = "__init__" => scheduler = NoScheduler)

\* C1 witness: a failing fit after a successful one, and the schedule is still there.
C1_Witness ==
    /\ call = "fit"
    /\ raised # "none"
    /\ Len(built) > 0
    /\ scheduler # NoScheduler

\* C2: fit with a dictionary lacking "optimizer" fails with
\* MissingDependencyError, whatever T_0 and T_mult are (the check runs before
\* any coercion or construction), builds no schedule and leaves scheduler as
\* it was.
C2_MissingOptimizer ==
    [][(call' = "fit" /\ "optimizer" \notin DOMAIN X)
        => /\ raised' = "MissingDependencyError"
           /\ scheduler' = scheduler
           /\ built' = built]_vars

\* C2 witness: a fitted instance, then fit without "optimizer".
C2_Witness ==
    /\ call = "fit"
    /\ "optimizer" \notin DOMAIN X
    /\ raised = "MissingDependencyError"
    /\ scheduler # NoScheduler

\* C3: whatever makes fit fail (the requirement check, int() of T_0 or T_mult,
\* the schedule constructor), the error reaches the caller, nothing is
\* returned and scheduler keeps its value; a T_0 or T_mult that int() rejects
\* never yields a schedule; scheduler is always null or a schedule the
\* constructor returned.
C3_FitAllOrNothing ==
    [][call' = "fit"
        => /\ (raised' # "none" => scheduler' = scheduler /\ ret' = "none")
           /\ (~Numeric(T_0) \/ ~Numeric(T_mult)
                 => raised' \in {"MissingDependencyError", "ValueError", "TypeError"})
           /\ (raised' \in {"ValueError", "TypeError"}
                 => ~Numeric(T_0) \/ ~Numeric(T_mult))
           /\ (scheduler' = NoScheduler \/ \E i \in DOMAIN built' : scheduler' = built'[i])]_vars

\* C3 witness: the instance was constructed with T_0 = 0, the constructor
\* rejected it, and the instance is still unfit.
C3_Witness ==
    /\ call = "fit"
    /\ T_0 = PyInteger(0)
    /\ raised = "SchedulerError"
    /\ scheduler = NoScheduler

\* C4: after any sequence of successful fit calls scheduler is the schedule
\* built by the last one, bound to that call's optimizer, and none of the
\* earlier ones.
C4_LastFitWins ==
    /\ Len(built) > 0 =>
          /\ scheduler = built[Len(built)]
          /\ \A i \in 1..(Len(built) - 1) : scheduler # built[i]
    /\ (call = "fit" /\ raised = "none") => scheduler.optimizer = X["optimizer"]

\* C4 witness: fit with optimizer A, then fit with optimizer B.
C4_Witness ==
    /\ Len(built) = 2
    /\ built[1].optimizer = "optA"
    /\ built[2].optimizer = "optB"
    /\ scheduler.optimizer = "optB"
    /\ call = "fit"

\* C5: the stored schedule was constructed with the dictionary's optimizer,
\* restart length int(T_0) and growth factor int(T_mult), int() truncating
\* toward zero: (5, 2) gives (5, 2), T_mult = 1.7 gives 1.
C5_ScheduleArguments ==
    /\ scheduler # NoScheduler =>
          /\ scheduler.T_0 = TruncTowardZero(T_0)
          /\ scheduler.T_mult = TruncTowardZero(T_mult)
          /\ scheduler.optimizer \in Optimizers
    /\ (call = "fit" /\ raised = "none") => scheduler.optimizer = X["optimizer"]
    /\ (scheduler # NoScheduler /\ T_0 = PyInteger(5) /\ T_mult = PyInteger(2))
          => (scheduler.T_0 = 5 /\ scheduler.T_mult = 2)
    /\ (scheduler # NoScheduler /\ T_mult = PyFloat(17, 10)) => scheduler.T_mult = 1

\* C5 witness: T_mult = 1.7 was coerced to growth factor 1.
C5_Witness ==
    /\ call = "fit"
    /\ raised = "none"
    /\ T_0 = PyInteger(5)
    /\ T_mult = PyFloat(17, 10)
    /\ scheduler.T_mult = 1

\* C6: a returned search space holds exactly two hyperparameters, the integer
\* T_0 and the real T_mult, each with the lower bound, upper bound and default
\* that were supplied; with the default arguments these are 1, 20, 1 and
\* 1.0, 2.0, 1.0.
C6_SearchSpace ==
    ret = "space" =>
        /\ Cardinality(cs) = 2
        /\ cs = {[name |-> "T_0", type |-> "UniformInteger",
                  lower |-> hp_args[1][1][1], upper |-> hp_args[1][1][2],
                  default_value |-> hp_args[1][2]],
                 [name |-> "T_mult", type |-> "UniformFloat",
                  lower |-> hp_args[2][1][1], upper |-> hp_args[2][1][2],
                  default_value |-> hp_args[2][2]]}
        /\ (hp_args = <<DefaultT_0, DefaultT_mult>> =>
              cs = {[name |-> "T_0", type |-> "UniformInteger",
                     lower |-> PyInteger(1), upper |-> PyInteger(20),
                     default_value |-> PyInteger(1)],
                    [name |-> "T_mult", type |-> "UniformFloat",
                     lower |-> PyFloat(1, 1), upper |-> PyFloat(2, 1),
                     default_value |-> PyFloat(1, 1)]})

\* C6 witness: the call with default arguments returned a space.
C6_Witness ==
    /\ ret = "space"
    /\ hp_args = <<DefaultT_0, DefaultT_mult>>
    /\ Cardinality(cs) = 2

\* C8: get_properties returns the fixed mapping for every argument and in
\* every component state, raises nothing and changes no field of the instance
\* nor the caller's dictionary.
C8_GetPropertiesPure ==
    [][call' = "get_properties"
        => /\ ret_props' = PropertiesMapping
           /\ raised' = "none"
           /\ UNCHANGED <<T_0, T_mult, random_state, scheduler, X>>]_vars

\* C8 witness: get_properties called on a fitted instance.
C8_Witness ==
    /\ call = "get_properties"
    /\ ret_props = PropertiesMapping
    /\ scheduler # NoScheduler

\* C9: a successful fit returns self and changes only scheduler: T_0, T_mult
\* and random_state keep the values they were constructed with (the coerced
\* integers are not written back), the dictionary is as before, and the new
\* schedule is determined by the dictionary and the fields alone, not by y.
C9_FitFrame ==
    [][(call' = "fit" /\ raised' = "none")
        => /\ ret' = "self"
           /\ UNCHANGED <<T_0, T_mult, random_state, X>>
           /\ scheduler' = [optimizer |-> X["optimizer"],
                            T_0 |-> TruncTowardZero(T_0),
                            T_mult |-> TruncTowardZero(T_mult),
                            id |-> Len(built) + 1]]_vars

\* C9 witness: after a successful fit the field T_mult is still 1.7 while the
\* schedule was given 1.
C9_Witness ==
    /\ call = "fit"
    /\ raised = "none"
    /\ ret = "self"
    /\ T_mult = PyFloat(17, 10)
    /\ T_0 = PyFloat(25, 10)
    /\ scheduler.T_0 = 2

InDefaultSearchSpace ==
    /\ T_0.kind = "int"
    /\ DefaultT_0[1][1].num <= T_0.num
    /\ T_0.num <= DefaultT_0[1][2].num
    /\ T_mult.kind = "float"
    /\ DefaultT_mult[1][1].num * T_mult.den <= T_mult.num * DefaultT_mult[1][1].den
    /\ T_mult.num * DefaultT_mult[1][2].den <= DefaultT_mult[1][2].num * T_mult.den

\* C10: for a configuration of the default search space (T_0 an integer in
\* 1..20, T_mult a real in [1.0, 2.0]) the schedule is constructed with
\* restart length T_0 and with growth factor 2 if T_mult = 2.0 and 1
\* otherwise; both are at least 1.
C10_DefaultSpaceArguments ==
    (InDefaultSearchSpace /\ scheduler # NoScheduler) =>
        /\ scheduler.T_0 = T_0.num
        /\ scheduler.T_0 \in 1..20
        /\ scheduler.T_mult = (IF T_mult.num = 2 * T_mult.den THEN 2 ELSE 1)
        /\ scheduler.T_mult >= 1

\* C10 witness: T_0 = 20 and a T_mult strictly between 1.0 and 2.0 gave
\* restart length 20 and growth factor 1.
C10_Witness ==
    /\ InDefaultSearchSpace
    /\ T_0.num = 20
    /\ T_mult.den < T_mult.num
    /\ T_mult.num < 2 * T_mult.den
    /\ scheduler.T_0 = 20
    /\ scheduler.T_mult = 1

====
